---- MODULE Spec2Model ----
(***************************************************************************)
(* Section registry of the KOVA landing page: the insertion-ordered map of *)
(* registered sections, the map of in-flight loads, the promises created   *)
(* by dynamicImport, the loadSection calls that are running or have        *)
(* returned, and the feature-flag environment the queries read; the        *)
(* LandingPage component that loads the sections when it mounts; and the   *)
(* SectionErrorBoundary instances that wrap the rendered sections.         *)
(***************************************************************************)
EXTENDS Integers, Sequences, FiniteSets, TLC

VARIABLES
    sections,       \* SectionRegistryManager.sections: Map in insertion order, <<[key, entry], ...>>
    loadPromises,   \* SectionRegistryManager.loadPromises: id -> promise index, NoPromise when absent
    promises,       \* promises returned by dynamicImport, in creation order
    calls,          \* loadSection invocations, in call order
    NODE_ENV,       \* process.env.NODE_ENV
    env,            \* process.env.FEATURE_<key>, "unset" when undefined
    FEATURE_FLAGS,  \* the flag table, "undefined" for a key it does not have
    flagQuery,      \* the last isFeatureEnabled(feature) call and the value it returned
    page,           \* LandingPage: its useState cells and the position of initializeSections
    boundaries,     \* SectionErrorBoundary instances: sectionId -> component state
    query,          \* the last query method called on the registry and what it returned
    propsCheck,     \* a validateSectionProps(props, config) call: its arguments and result
    flagSet         \* the last setFeatureFlag(feature, enabled) call

vars == <<sections, loadPromises, promises, calls, NODE_ENV, env, FEATURE_FLAGS,
          flagQuery, page, boundaries, query, propsCheck, flagSet>>

----------------------------------------------------------------------------
(* Bounds *)

MaxCalls == 2

\* Errors one wrapped subtree raises while rendering.
MaxRaises == 2

\* loadSection calls made by other callers while the landing page initializes.
MaxOtherCalls == 1

----------------------------------------------------------------------------
(* Types and constants of the source *)

SectionIds == {"hero", "features", "pricing", "testimonials", "contact"}

AVAILABLE_SECTIONS == {"hero"}

FlagNames == {"HERO_SECTION", "FEATURES_SECTION", "PRICING_SECTION",
              "TESTIMONIALS_SECTION", "CONTACT_SECTION"}

StaticFlags ==
    [f \in FlagNames |-> IF f = "HERO_SECTION" THEN "true" ELSE "false"]

HeroOrder == 1

HeroDependencies == <<"ethereal-depth">>

NoPromise == 0

NoEntry == [cid |-> "none", order |-> 0, deps |-> <<>>, src |-> 0]

\* The entry built by dynamicImport('hero') for promise p: a fresh object
\* (src = p) around the module's heroSectionConfig.
HeroEntry(p) ==
    [cid |-> "hero", order |-> HeroOrder, deps |-> HeroDependencies, src |-> p]

----------------------------------------------------------------------------
(* Inputs *)

\* Identifiers passed to register and loadSection.
CallIds == {"hero", "features", "pricing"}

\* config.id of an entry handed to register.
ConfigIds == {"hero", "features", "pricing"}

Orders == {1, 2}

DepChoices == {<<>>, <<"features">>}

\* Entries handed to register by a caller (src = 0: not built by dynamicImport).
\* order is read only by the sort and dependencies only by
\* validateDependencies, so the pool pairs them: the entries of order 2 are
\* the ones that declare a dependency.
Entries ==
    {e \in [cid : ConfigIds, order : Orders, deps : DepChoices, src : {0}] :
        (e.order = 2) <=> (e.deps # <<>>)}

\* Keys of process.env.FEATURE_<key> that may be set.
OverrideKeys == {"hero", "features", "pricing"}

EnvValues == {"unset", "true"}

\* The registry on its own reads an identifier only to compare it with the
\* allow-list and with the keys of its maps: its callers use the allow-listed
\* identifier and one other.
RegistryIds == {"hero", "features"}

\* The entries those callers hand to register.
RegistryEntries == {e \in Entries : e.cid \in RegistryIds}

\* The register(id, entry) calls made around the landing page, before it
\* mounts, while it initializes and afterwards: an entry of order 1 under each
\* identifier, 'features' also with order 2 (so that two identifiers are
\* registered in either order of their `order` fields, with equal fields, and
\* an entry is replaced by a different one), and one entry of another
\* config.id under the key 'hero'.
PageRegistrations ==
    {r \in CallIds \X Entries :
        \/ r[2].cid = r[1] /\ (r[2].order = 1 \/ r[1] = "features")
        \/ r[1] = "hero" /\ r[2].cid = "features" /\ r[2].order = 1}

\* The landing page drops the entries of config.id 'hero' from the enabled
\* set it walks (landing-page.tsx:72), so FEATURE_hero has no effect on it.
PageOverrideKeys == OverrideKeys \ {"hero"}

\* Flags passed to isFeatureEnabled and setFeatureFlag by callers that
\* respect the FeatureFlag type, and the values FEATURE_<flag> may hold.
FlagInputs == {"HERO_SECTION", "FEATURES_SECTION"}

FlagEnvValues == {"unset", "true", "false", "1"}

\* Error objects thrown by a rendering subtree.
Errors == {"TypeError", "RangeError"}

----------------------------------------------------------------------------
(* Map helpers: the sections Map keeps insertion order; set on an existing  *)
(* key replaces the value in place.                                         *)

Keys(m) == {m[i].key : i \in 1..Len(m)}

IndexOf(m, id) == CHOOSE i \in 1..Len(m) : m[i].key = id

\* Faulty variant of MapSet: an existing key keeps the order of its old entry.
MapSet_Merge(m, id, entry) ==
    IF id \in Keys(m)
    THEN [m EXCEPT ![IndexOf(m, id)] =
            [key |-> id, entry |-> [entry EXCEPT !.order = m[IndexOf(m, id)].entry.order]]]
    ELSE Append(m, [key |-> id, entry |-> entry])

\* Faulty variant of MapSet: the map is rebuilt around the new pair and the
\* other keys are lost.
MapSet_Reset(m, id, entry) == <<[key |-> id, entry |-> entry]>>

MapSet(m, id, entry) ==
    IF id \in Keys(m)
    THEN [m EXCEPT ![IndexOf(m, id)] = [key |-> id, entry |-> entry]]
    ELSE Append(m, [key |-> id, entry |-> entry])

----------------------------------------------------------------------------
(* Feature flags *)

EnvGet(k) == IF k \in DOMAIN env THEN env[k] ELSE "unset"

\* FEATURE_FLAGS is a plain object literal, so a property lookup that finds no
\* own key goes on to Object.prototype: its methods are found under their
\* names, and its accessor __proto__ yields Object.prototype itself.
ObjectPrototypeMethods ==
    {"constructor", "hasOwnProperty", "isPrototypeOf", "propertyIsEnumerable",
     "toLocaleString", "toString", "valueOf", "__defineGetter__",
     "__defineSetter__", "__lookupGetter__", "__lookupSetter__"}

\* FEATURE_FLAGS[k]: "true" / "false" for an own key, "function" or "object"
\* for an inherited member, "undefined" otherwise.
FlagGet(k) ==
    IF k \in DOMAIN FEATURE_FLAGS THEN FEATURE_FLAGS[k]
    ELSE IF k \in ObjectPrototypeMethods THEN "function"
    ELSE IF k = "__proto__" THEN "object"
    ELSE "undefined"

\* Faulty variant of isFeatureEnabled: the override is honoured in every mode.
isFeatureEnabled_AnyMode(feature) ==
    IF EnvGet(feature) # "unset"
    THEN IF EnvGet(feature) = "true" THEN "true" ELSE "false"
    ELSE FlagGet(feature)

\* isFeatureEnabled(feature): the JavaScript value returned.
isFeatureEnabled(feature) ==
    IF NODE_ENV = "development" /\ EnvGet(feature) # "unset"
    THEN IF EnvGet(feature) = "true" THEN "true" ELSE "false"
    ELSE FlagGet(feature)

\* JavaScript truthiness of the values above: functions and objects are
\* truthy, false and undefined are not.
Truthy(v) == v \in {"true", "function", "object"}

----------------------------------------------------------------------------
(* Registry queries *)

getSection(id) ==
    IF id \in Keys(sections) THEN sections[IndexOf(sections, id)].entry ELSE NoEntry

hasSection(id) == id \in Keys(sections)

getAllSections == [i \in 1..Len(sections) |-> sections[i].entry]

\* hasSection(id) && isFeatureEnabled(id): the JavaScript value returned.
isSectionEnabled(id) ==
    IF hasSection(id) THEN isFeatureEnabled(id) ELSE "false"

\* Array.prototype.sort with the comparator a.config.order - b.config.order:
\* a stable sort, ascending by order. InsertByOrder puts e behind every
\* element that does not compare greater, so equal orders keep their order.
\* Faulty variant of InsertByOrder: e goes in front of the elements of equal order.
InsertByOrder_Unstable(s, e) ==
    LET n == Cardinality({i \in 1..Len(s) : s[i].order < e.order})
    IN SubSeq(s, 1, n) \o <<e>> \o SubSeq(s, n + 1, Len(s))

InsertByOrder(s, e) ==
    LET n == Cardinality({i \in 1..Len(s) : s[i].order <= e.order})
    IN SubSeq(s, 1, n) \o <<e>> \o SubSeq(s, n + 1, Len(s))

RECURSIVE SortByOrder(_)
SortByOrder(s) ==
    IF s = <<>> THEN <<>>
    ELSE InsertByOrder(SortByOrder(SubSeq(s, 1, Len(s) - 1)), s[Len(s)])

\* The filter callback of getEnabledSections.
EnabledFilter(entry) == Truthy(isFeatureEnabled(entry.cid))

getEnabledSections == SortByOrder(SelectSeq(getAllSections, EnabledFilter))

getSectionsInOrder == SortByOrder(getEnabledSections)

\* Faulty variant of DependencyRegistered: the dependency must be enabled too.
DependencyRegistered_Enabled(dep) == Truthy(isSectionEnabled(dep))

\* this.hasSection(dep as any): the test validateDependencies makes of a dependency.
DependencyRegistered(dep) == hasSection(dep)

\* The errors one entry contributes: one <<config.id, dep>> per declared
\* dependency that is not registered, in declaration order.
RECURSIVE MissingDeps(_, _)
MissingDeps(entry, deps) ==
    IF deps = <<>> THEN <<>>
    ELSE (IF DependencyRegistered(Head(deps)) THEN <<>>
          ELSE <<<<entry.cid, Head(deps)>>>>)
         \o MissingDeps(entry, Tail(deps))

RECURSIVE DependencyErrors(_)
DependencyErrors(list) ==
    IF list = <<>> THEN <<>>
    ELSE MissingDeps(Head(list), Head(list).deps) \o DependencyErrors(Tail(list))

validateDependencies ==
    LET errors == DependencyErrors(getEnabledSections)
    IN [valid |-> Len(errors) = 0, errors |-> errors]

\* Faulty variant of getLoadStatus: the in-flight test comes first.
getLoadStatus_MarkerFirst ==
    [id \in SectionIds |->
        IF loadPromises[id] # NoPromise THEN "loading"
        ELSE IF hasSection(id) THEN "loaded"
        ELSE "not-loaded"]

getLoadStatus ==
    [id \in SectionIds |->
        IF hasSection(id) THEN "loaded"
        ELSE IF loadPromises[id] # NoPromise THEN "loading"
        ELSE "not-loaded"]

----------------------------------------------------------------------------
(* Initial values of the components outside the registry *)

\* No isFeatureEnabled call has been observed yet.
NoQuery == [feature |-> "none", value |-> "none"]

\* No setFeatureFlag call has been made yet.
NoFlagSet == [feature |-> "none", enabled |-> "none"]

\* No query method has been called yet. Each kind of result has its own
\* field: entry for getSection, bool for hasSection and isSectionEnabled,
\* list for the three list queries, validation for validateDependencies and
\* status for getLoadStatus.
NoRegistryQuery ==
    [op |-> "none", id |-> "none", entry |-> NoEntry, bool |-> "none",
     list |-> <<>>, validation |-> [valid |-> TRUE, errors |-> <<>>],
     status |-> [id \in SectionIds |-> "none"]]

\* No validateSectionProps call has been made yet.
NoPropsCheck ==
    [props |-> <<>>, schema |-> <<>>, called |-> FALSE,
     result |-> [valid |-> TRUE, errors |-> <<>>]]

\* LandingPage before it mounts: useState([]), useState({}), useState(false).
\* pc is the position of initializeSections, call the loadSection call it
\* awaits, index the position of the for loop in additionalSections, attempts
\* the loadSection calls it has made so far.
PageInit ==
    [pc |-> "unmounted", sections |-> <<>>,
     loadingStatus |-> [id \in SectionIds |-> "none"],
     isInitialized |-> FALSE, additionalSections |-> <<>>,
     index |-> 0, call |-> 0, attempts |-> <<>>, raised |-> FALSE]

\* sectionId props of the boundaries on the page.
BoundaryIds == {"hero", "features"}

\* this.state = { hasError: false } of an instance whose onError prop is
\* supplied or not. pending is the error React has handed to
\* getDerivedStateFromError and not yet to componentDidCatch, raises the
\* number of times the subtree raised, reported the onError calls made.
BoundaryInit(onError) ==
    [hasError |-> FALSE, error |-> "undefined", errorInfo |-> "undefined",
     pending |-> "undefined", onError |-> onError, raises |-> 0, reported |-> <<>>]

----------------------------------------------------------------------------
(* State machine *)

Init ==
    /\ sections = <<>>
    /\ loadPromises = [id \in SectionIds |-> NoPromise]
    /\ promises = <<>>
    /\ calls = <<>>
    /\ NODE_ENV \in {"development", "production"}
    /\ env \in [RegistryIds -> EnvValues]
    /\ FEATURE_FLAGS = StaticFlags
    /\ flagQuery = NoQuery
    /\ page = PageInit
    /\ boundaries = [b \in BoundaryIds |-> BoundaryInit(FALSE)]
    /\ query = NoRegistryQuery
    /\ propsCheck = NoPropsCheck
    /\ flagSet = NoFlagSet

\* The initial state of the landing page and of the registry it uses; the
\* overrides of every section the page may walk are drawn.
InitPage ==
    /\ sections = <<>>
    /\ loadPromises = [id \in SectionIds |-> NoPromise]
    /\ promises = <<>>
    /\ calls = <<>>
    /\ NODE_ENV \in {"development", "production"}
    /\ env \in [PageOverrideKeys -> EnvValues]
    /\ FEATURE_FLAGS = StaticFlags
    /\ flagQuery = NoQuery
    /\ page = PageInit
    /\ boundaries = [b \in BoundaryIds |-> BoundaryInit(FALSE)]
    /\ query = NoRegistryQuery
    /\ propsCheck = NoPropsCheck
    /\ flagSet = NoFlagSet

\* register(id, entry)
Register(id, entry) ==
    /\ sections' = MapSet(sections, id, entry)
    /\ UNCHANGED <<loadPromises, promises, calls, NODE_ENV, env, FEATURE_FLAGS>>
    /\ UNCHANGED <<flagQuery, page, boundaries>>
    /\ UNCHANGED <<query, propsCheck, flagSet>>

\* The calls that have not returned yet.
PendingCalls == {c \in 1..Len(calls) : calls[c].status = "awaiting"}

\* Faulty variant of LoadBranch: the in-flight check is missing.
LoadBranch_NoJoin(id) ==
    IF id \notin AVAILABLE_SECTIONS THEN "unavailable"
    ELSE IF hasSection(id) THEN "existing"
    ELSE "started"

\* Faulty variant of LoadBranch: the allow-list check is missing.
LoadBranch_NoAllowList(id) ==
    IF hasSection(id) THEN "existing"
    ELSE IF loadPromises[id] # NoPromise THEN "joined"
    ELSE "started"

\* Faulty variant of LoadBranch: the already-loaded check is missing.
LoadBranch_NoExisting(id) ==
    IF id \notin AVAILABLE_SECTIONS THEN "unavailable"
    ELSE IF loadPromises[id] # NoPromise THEN "joined"
    ELSE "started"

\* Faulty variant of LoadBranch: the registered check comes before the
\* allow-list check.
LoadBranch_RegisteredFirst(id) ==
    IF hasSection(id) THEN "existing"
    ELSE IF id \notin AVAILABLE_SECTIONS THEN "unavailable"
    ELSE IF loadPromises[id] # NoPromise THEN "joined"
    ELSE "started"

\* Which return path of loadSection(id) is taken in the current state.
LoadBranch(id) ==
    IF id \notin AVAILABLE_SECTIONS THEN "unavailable"
    ELSE IF hasSection(id) THEN "existing"
    ELSE IF loadPromises[id] # NoPromise THEN "joined"
    ELSE "started"

\* Faulty variant of PublishMarker: the promise is not published.
PublishMarker_Skip(id, p) == loadPromises

\* this.loadPromises.set(id, promise)
PublishMarker(id, p) == [loadPromises EXCEPT ![id] = p]

CallRecord(id, kind, p, status, outcome, value) ==
    [id |-> id, kind |-> kind, p |-> p, status |-> status,
     outcome |-> outcome, value |-> value, before |-> PendingCalls]

\* loadSection(id), up to its first suspension or its return: what the call
\* does to the registry, whoever makes it.
loadSection(id) ==
    LET branch == LoadBranch(id) IN
    CASE branch = "unavailable" ->
           /\ calls' = Append(calls,
                 CallRecord(id, branch, NoPromise, "returned", "null", NoEntry))
           /\ UNCHANGED <<sections, loadPromises, promises>>
      [] branch = "existing" ->
           /\ calls' = Append(calls,
                 CallRecord(id, branch, NoPromise, "returned", "entry", getSection(id)))
           /\ UNCHANGED <<sections, loadPromises, promises>>
      [] branch = "joined" ->
           /\ calls' = Append(calls,
                 CallRecord(id, branch, loadPromises[id], "awaiting", "none", NoEntry))
           /\ UNCHANGED <<sections, loadPromises, promises>>
      [] branch = "started" ->
           /\ promises' = Append(promises,
                 [id |-> id, state |-> "pending", entry |-> NoEntry])
           /\ loadPromises' = PublishMarker(id, Len(promises) + 1)
           /\ calls' = Append(calls,
                 CallRecord(id, branch, Len(promises) + 1, "awaiting", "none", NoEntry))
           /\ UNCHANGED sections

\* A caller other than the landing page calls loadSection(id).
LoadSection(id) ==
    /\ Len(calls) - Len(page.attempts) < MaxCalls
    /\ loadSection(id)
    /\ UNCHANGED <<NODE_ENV, env, FEATURE_FLAGS, flagQuery, page, boundaries>>
    /\ UNCHANGED <<query, propsCheck, flagSet>>

\* dynamicImport(id) can fulfil only through its 'hero' case.
ImportCanFulfil(id) == id = "hero"

\* The promise of dynamicImport settles: the import resolved and the entry
\* was built, or the import (or the default case) threw.
ImportSettle(p, ok) ==
    /\ promises[p].state = "pending"
    /\ ok => ImportCanFulfil(promises[p].id)
    /\ promises' = [promises EXCEPT ![p] =
            IF ok THEN [@ EXCEPT !.state = "fulfilled", !.entry = HeroEntry(p)]
                  ELSE [@ EXCEPT !.state = "rejected"]]
    /\ UNCHANGED <<sections, loadPromises, calls, NODE_ENV, env, FEATURE_FLAGS>>
    /\ UNCHANGED <<flagQuery, page, boundaries>>
    /\ UNCHANGED <<query, propsCheck, flagSet>>

\* What the call that started the load returns once its promise has settled.
StartedOutcome(p) ==
    IF promises[p].state = "fulfilled" THEN "entry" ELSE "null"

\* What a call that returned the in-flight promise resolves to.
JoinedOutcome(p) ==
    IF promises[p].state = "fulfilled" THEN "entry" ELSE "rejected"

\* Faulty variant of DeleteMarker: the marker is left in place.
DeleteMarker_Keep(id) == loadPromises

\* finally { this.loadPromises.delete(id) }
DeleteMarker(id) == [loadPromises EXCEPT ![id] = NoPromise]

\* The starting call resumes after `await promise`: try / catch / finally.
StartedResume(c) ==
    /\ calls[c].kind = "started"
    /\ calls[c].status = "awaiting"
    /\ promises[calls[c].p].state # "pending"
    /\ LET p == calls[c].p
           id == calls[c].id
           out == StartedOutcome(p)
       IN /\ sections' = IF promises[p].state = "fulfilled"
                         THEN MapSet(sections, id, promises[p].entry)
                         ELSE sections
          /\ loadPromises' = DeleteMarker(id)
          /\ calls' = [calls EXCEPT ![c] =
                [@ EXCEPT !.status = "returned", !.outcome = out,
                          !.value = IF out = "entry" THEN promises[p].entry ELSE NoEntry]]
    /\ UNCHANGED <<promises, NODE_ENV, env, FEATURE_FLAGS, flagQuery, page, boundaries>>
    /\ UNCHANGED <<query, propsCheck, flagSet>>

\* The call that started promise p.
StarterOf(p) == CHOOSE c \in 1..Len(calls) : calls[c].kind = "started" /\ calls[c].p = p

\* Faulty variant of StarterResumed: the reactions of the promise run in any
\* order.
StarterResumed_Any(c) == TRUE

\* The reactions of the in-flight promise run in the order they were
\* attached: the starting call awaited it before any call could join, so its
\* continuation has run when the joined call c settles.
StarterResumed(c) == calls[StarterOf(calls[c].p)].status = "returned"

\* A joined call settles with the in-flight promise, after StartedResume.
JoinedResume(c) ==
    /\ calls[c].kind = "joined"
    /\ calls[c].status = "awaiting"
    /\ promises[calls[c].p].state # "pending"
    /\ StarterResumed(c)
    /\ LET p == calls[c].p
           out == JoinedOutcome(p)
       IN calls' = [calls EXCEPT ![c] =
                [@ EXCEPT !.status = "returned", !.outcome = out,
                          !.value = IF out = "entry" THEN promises[p].entry ELSE NoEntry]]
    /\ UNCHANGED <<sections, loadPromises, promises, NODE_ENV, env, FEATURE_FLAGS>>
    /\ UNCHANGED <<flagQuery, page, boundaries>>
    /\ UNCHANGED <<query, propsCheck, flagSet>>

Next ==
    \/ \E id \in RegistryIds, e \in RegistryEntries : Register(id, e)
    \/ \E id \in RegistryIds : LoadSection(id)
    \/ \E p \in 1..Len(promises), ok \in BOOLEAN : ImportSettle(p, ok)
    \/ \E c \in 1..Len(calls) : StartedResume(c)
    \/ \E c \in 1..Len(calls) : JoinedResume(c)

Spec == Init /\ [][Next]_vars

----------------------------------------------------------------------------
(* The landing page: initializeSections runs once when the page mounts and  *)
(* is suspended at each await of a loadSection call.                        *)

\* Faulty variant of AwaitDone: the caller does not wait for the call.
AwaitDone_NoWait(c) == TRUE

\* await sectionRegistry.loadSection(...): the caller resumes once call c
\* has returned.
AwaitDone(c) == calls[c].status = "returned"

\* The filter callback of additionalSections.
NotHero(entry) == entry.cid # "hero"

\* The outer catch: console.error and setIsInitialized(true).
CatchOuter(pg) == [pg EXCEPT !.isInitialized = TRUE, !.pc = "done", !.raised = TRUE]

\* Faulty variant of LoopFrom: setIsInitialized(true) comes before the loop.
LoopFrom_InitializedFirst(pg, k) ==
    IF k > Len(pg.additionalSections)
    THEN /\ page' = [pg EXCEPT !.isInitialized = TRUE, !.pc = "done"]
         /\ UNCHANGED <<sections, loadPromises, promises, calls>>
    ELSE LET id == pg.additionalSections[k].cid
         IN /\ page' = [pg EXCEPT !.isInitialized = TRUE,
                                  !.loadingStatus[id] = "loading",
                                  !.index = k, !.pc = "awaitSection",
                                  !.call = Len(calls) + 1,
                                  !.attempts = Append(@, Len(calls) + 1)]
            /\ loadSection(id)

\* The for loop reaches position k of additionalSections with the page
\* state pg: it marks the section 'loading' and calls loadSection, or, past
\* the end of the list, it calls setIsInitialized(true).
LoopFrom(pg, k) ==
    IF k > Len(pg.additionalSections)
    THEN /\ page' = [pg EXCEPT !.isInitialized = TRUE, !.pc = "done"]
         /\ UNCHANGED <<sections, loadPromises, promises, calls>>
    ELSE LET id == pg.additionalSections[k].cid
         IN /\ page' = [pg EXCEPT !.loadingStatus[id] = "loading",
                                  !.index = k, !.pc = "awaitSection",
                                  !.call = Len(calls) + 1,
                                  !.attempts = Append(@, Len(calls) + 1)]
            /\ loadSection(id)

\* The effect runs: initializeSections() calls loadSection('hero') and
\* suspends.
PageMount ==
    /\ page.pc = "unmounted"
    /\ page' = [page EXCEPT !.pc = "awaitHero", !.call = Len(calls) + 1,
                            !.attempts = <<Len(calls) + 1>>]
    /\ loadSection("hero")
    /\ UNCHANGED <<NODE_ENV, env, FEATURE_FLAGS, flagQuery, boundaries>>
    /\ UNCHANGED <<query, propsCheck, flagSet>>

\* Faulty variant of SeedRenderList: the status of hero is not recorded.
SeedRenderList_NoStatus(pg, heroEntry) == [pg EXCEPT !.sections = <<heroEntry>>]

\* setSections([heroEntry]); setLoadingStatus(prev => ({...prev, hero: 'loaded'}))
SeedRenderList(pg, heroEntry) ==
    [pg EXCEPT !.sections = <<heroEntry>>, !.loadingStatus["hero"] = "loaded"]

\* initializeSections resumes after the hero load: it seeds the render list,
\* reads the enabled set and enters the loop; a rejected load goes to the
\* outer catch.
HeroResume ==
    /\ page.pc = "awaitHero"
    /\ AwaitDone(page.call)
    /\ LET out == calls[page.call].outcome
           heroEntry == calls[page.call].value
           seeded == IF out = "entry" THEN SeedRenderList(page, heroEntry) ELSE page
       IN IF out = "rejected"
          THEN /\ page' = CatchOuter(page)
               /\ UNCHANGED <<sections, loadPromises, promises, calls>>
          ELSE LoopFrom([seeded EXCEPT !.additionalSections =
                            SelectSeq(getEnabledSections, NotHero)], 1)
    /\ UNCHANGED <<NODE_ENV, env, FEATURE_FLAGS, flagQuery, boundaries>>
    /\ UNCHANGED <<query, propsCheck, flagSet>>

\* initializeSections resumes after the load of a section of the loop,
\* records the outcome and goes on with the next section.
SectionResume ==
    /\ page.pc = "awaitSection"
    /\ AwaitDone(page.call)
    /\ LET id == page.additionalSections[page.index].cid
           out == calls[page.call].outcome
           loadedEntry == calls[page.call].value
           recorded ==
               IF out = "entry"
               THEN [page EXCEPT !.sections = SortByOrder(Append(@, loadedEntry)),
                                 !.loadingStatus[id] = "loaded"]
               ELSE IF out = "rejected"
               THEN [page EXCEPT !.loadingStatus[id] = "error"]
               ELSE page
       IN LoopFrom(recorded, page.index + 1)
    /\ UNCHANGED <<NODE_ENV, env, FEATURE_FLAGS, flagQuery, boundaries>>
    /\ UNCHANGED <<query, propsCheck, flagSet>>

\* What the page renders for each entry of its render list.
RenderList ==
    [i \in 1..Len(page.sections) |->
        LET status == page.loadingStatus[page.sections[i].cid]
        IN [id |-> page.sections[i].cid,
            view |-> IF status = "loading" THEN "SectionLoader"
                     ELSE IF status = "error" THEN "SectionErrorFallback"
                     ELSE "SectionErrorBoundary"]]

\* Another caller loads a section while the page initializes.
OtherLoad(id) ==
    /\ Len(calls) - Len(page.attempts) < MaxOtherCalls
    /\ LoadSection(id)

NextPage ==
    \/ \E r \in PageRegistrations : Register(r[1], r[2])
    \/ \E id \in AVAILABLE_SECTIONS : OtherLoad(id)
    \/ \E p \in 1..Len(promises), ok \in BOOLEAN : ImportSettle(p, ok)
    \/ \E c \in 1..Len(calls) : StartedResume(c)
    \/ \E c \in 1..Len(calls) : JoinedResume(c)
    \/ PageMount
    \/ HeroResume
    \/ SectionResume

SpecPage == InitPage /\ [][NextPage]_vars

\* The register calls of PageRegistrations under the keys of RegistryIds.
FairRegistrations == {r \in PageRegistrations : r[1] \in RegistryIds}

\* The page in a registry that takes the calls of FairRegistrations; register
\* is public and may be called at any time, before the page mounts, while it
\* initializes and afterwards.
NextPageFair ==
    \/ \E r \in FairRegistrations : Register(r[1], r[2])
    \/ \E id \in AVAILABLE_SECTIONS : OtherLoad(id)
    \/ \E p \in 1..Len(promises), ok \in BOOLEAN : ImportSettle(p, ok)
    \/ \E c \in 1..Len(calls) : StartedResume(c)
    \/ \E c \in 1..Len(calls) : JoinedResume(c)
    \/ PageMount
    \/ HeroResume
    \/ SectionResume

\* Every continuation is a promise reaction the event loop runs once its
\* promise has settled, and every dynamicImport promise settles.
SpecPageFair ==
    /\ Init
    /\ [][NextPageFair]_vars
    /\ WF_vars(\E p \in 1..Len(promises), ok \in BOOLEAN : ImportSettle(p, ok))
    /\ WF_vars(\E c \in 1..Len(calls) : StartedResume(c))
    /\ WF_vars(\E c \in 1..Len(calls) : JoinedResume(c))
    /\ WF_vars(HeroResume)
    /\ WF_vars(SectionResume)

----------------------------------------------------------------------------
(* Feature flags on their own: the flag functions called with flag names,   *)
(* under every mode and every override of those flags.                      *)

InitFlags ==
    /\ sections = <<>>
    /\ loadPromises = [id \in SectionIds |-> NoPromise]
    /\ promises = <<>>
    /\ calls = <<>>
    /\ NODE_ENV \in {"development", "production"}
    /\ env \in [FlagInputs -> FlagEnvValues]
    /\ FEATURE_FLAGS = StaticFlags
    /\ flagQuery = NoQuery
    /\ page = PageInit
    /\ boundaries = [b \in BoundaryIds |-> BoundaryInit(FALSE)]
    /\ query = NoRegistryQuery
    /\ propsCheck = NoPropsCheck
    /\ flagSet = NoFlagSet

\* A caller evaluates isFeatureEnabled(feature) and keeps the value.
IsFeatureEnabled(feature) ==
    /\ flagQuery' = [feature |-> feature, value |-> isFeatureEnabled(feature)]
    /\ UNCHANGED <<sections, loadPromises, promises, calls, NODE_ENV, env,
                   FEATURE_FLAGS, page, boundaries>>
    /\ UNCHANGED <<query, propsCheck, flagSet>>

\* Faulty variant of FlagsAfterSet: the table is written in every mode.
FlagsAfterSet_AnyMode(feature, enabled) ==
    [k \in DOMAIN FEATURE_FLAGS \cup {feature} |->
        IF k = feature THEN enabled ELSE FEATURE_FLAGS[k]]

\* The table after setFeatureFlag(feature, enabled): written in development
\* only.  The assignment creates the own key when the table has none of that
\* name; a boolean assigned to __proto__ is ignored by the accessor.
FlagsAfterSet(feature, enabled) ==
    IF NODE_ENV = "development" /\ feature # "__proto__"
    THEN [k \in DOMAIN FEATURE_FLAGS \cup {feature} |->
             IF k = feature THEN enabled ELSE FEATURE_FLAGS[k]]
    ELSE FEATURE_FLAGS

\* setFeatureFlag(feature, enabled)
SetFeatureFlag(feature, enabled) ==
    /\ FEATURE_FLAGS' = FlagsAfterSet(feature, enabled)
    /\ flagSet' = [feature |-> feature, enabled |-> enabled]
    /\ UNCHANGED <<sections, loadPromises, promises, calls, NODE_ENV, env,
                   flagQuery, page, boundaries>>
    /\ UNCHANGED <<query, propsCheck>>

NextFlags ==
    \/ \E f \in FlagInputs : IsFeatureEnabled(f)
    \/ \E f \in FlagInputs, enabled \in {"true", "false"} : SetFeatureFlag(f, enabled)

SpecFlags == InitFlags /\ [][NextFlags]_vars

----------------------------------------------------------------------------
(* Error boundaries on their own: each instance wraps a subtree that may    *)
(* raise while rendering.                                                   *)

InitBoundaries ==
    /\ sections = <<>>
    /\ loadPromises = [id \in SectionIds |-> NoPromise]
    /\ promises = <<>>
    /\ calls = <<>>
    /\ NODE_ENV \in {"development", "production"}
    /\ env = [k \in OverrideKeys |-> "unset"]
    /\ FEATURE_FLAGS = StaticFlags
    /\ flagQuery = NoQuery
    /\ page = PageInit
    /\ \E supplied \in [BoundaryIds -> BOOLEAN] :
          boundaries = [b \in BoundaryIds |-> BoundaryInit(supplied[b])]
    /\ query = NoRegistryQuery
    /\ propsCheck = NoPropsCheck
    /\ flagSet = NoFlagSet

\* Faulty variant of SetState: the state lives in the class, not the instance.
SetState_Shared(b, state) == [o \in BoundaryIds |-> state]

\* The state of instance b becomes state; no other instance is touched.
SetState(b, state) == [boundaries EXCEPT ![b] = state]

\* static getDerivedStateFromError(error), merged into the state.
getDerivedStateFromError(state, error) ==
    [state EXCEPT !.hasError = TRUE, !.error = error]

\* Faulty variant of RetryState: only hasError is reset.
RetryState_KeepsError(state) == [state EXCEPT !.hasError = FALSE]

\* The state retry() sets.
RetryState(state) ==
    [state EXCEPT !.hasError = FALSE, !.error = "undefined", !.errorInfo = "undefined"]

\* render(): what the instance returns.
Render(b) == IF boundaries[b].hasError THEN "fallback" ELSE "children"

\* The subtree of b raises error while rendering; React discards the subtree
\* and calls getDerivedStateFromError.
SubtreeRaises(b, error) ==
    /\ Render(b) = "children"
    /\ boundaries[b].pending = "undefined"
    /\ boundaries[b].raises < MaxRaises
    /\ boundaries' = SetState(b,
            [getDerivedStateFromError(boundaries[b], error) EXCEPT
                !.pending = error, !.raises = @ + 1])
    /\ UNCHANGED <<sections, loadPromises, promises, calls, NODE_ENV, env,
                   FEATURE_FLAGS, flagQuery, page>>
    /\ UNCHANGED <<query, propsCheck, flagSet>>

\* Faulty variant of ReportError: the callback is called without the test.
ReportError_Unguarded(state, error, errorInfo) ==
    Append(state.reported, <<error, errorInfo>>)

\* if (this.props.onError) this.props.onError(error, errorInfo): the calls
\* the callback has received.
ReportError(state, error, errorInfo) ==
    IF state.onError THEN Append(state.reported, <<error, errorInfo>>)
    ELSE state.reported

\* componentDidCatch(error, errorInfo), called when the fallback is committed.
ComponentDidCatch(b) ==
    /\ boundaries[b].pending # "undefined"
    /\ LET state == boundaries[b]
           error == state.pending
       IN boundaries' = SetState(b,
            [state EXCEPT !.error = error, !.errorInfo = "componentStack",
                          !.pending = "undefined",
                          !.reported = ReportError(state, error, "componentStack")])
    /\ UNCHANGED <<sections, loadPromises, promises, calls, NODE_ENV, env,
                   FEATURE_FLAGS, flagQuery, page>>
    /\ UNCHANGED <<query, propsCheck, flagSet>>

\* retry(), reachable from the button of the committed fallback.
Retry(b) ==
    /\ Render(b) = "fallback"
    /\ boundaries[b].pending = "undefined"
    /\ boundaries' = SetState(b, RetryState(boundaries[b]))
    /\ UNCHANGED <<sections, loadPromises, promises, calls, NODE_ENV, env,
                   FEATURE_FLAGS, flagQuery, page>>
    /\ UNCHANGED <<query, propsCheck, flagSet>>

NextBoundaries ==
    \/ \E b \in BoundaryIds, error \in Errors : SubtreeRaises(b, error)
    \/ \E b \in BoundaryIds : ComponentDidCatch(b)
    \/ \E b \in BoundaryIds : Retry(b)

SpecBoundaries == InitBoundaries /\ [][NextBoundaries]_vars

----------------------------------------------------------------------------
(* The query methods of the registry, called between registrations and      *)
(* loads.                                                                    *)

QueryOps ==
    {"getSection", "hasSection", "isSectionEnabled", "getAllSections",
     "getEnabledSections", "getSectionsInOrder", "validateDependencies",
     "getLoadStatus"}

\* What the query method op returns for the argument id (the methods
\* without a parameter ignore it).
QueryResult(op, id) ==
    LET base == [NoRegistryQuery EXCEPT !.op = op]
    IN CASE op = "getSection" ->
              [base EXCEPT !.id = id, !.entry = getSection(id)]
         [] op = "hasSection" ->
              [base EXCEPT !.id = id,
                           !.bool = IF hasSection(id) THEN "true" ELSE "false"]
         [] op = "isSectionEnabled" ->
              [base EXCEPT !.id = id, !.bool = isSectionEnabled(id)]
         [] op = "getAllSections" -> [base EXCEPT !.list = getAllSections]
         [] op = "getEnabledSections" -> [base EXCEPT !.list = getEnabledSections]
         [] op = "getSectionsInOrder" -> [base EXCEPT !.list = getSectionsInOrder]
         [] op = "validateDependencies" ->
              [base EXCEPT !.validation = validateDependencies]
         [] op = "getLoadStatus" -> [base EXCEPT !.status = getLoadStatus]

\* Faulty variant of SectionsAfterQuery: the enabled filter is applied to
\* the map itself.
SectionsAfterQuery_FiltersMap(op) ==
    IF op \in {"getEnabledSections", "getSectionsInOrder"}
    THEN SelectSeq(sections, LAMBDA pair : EnabledFilter(pair.entry))
    ELSE sections

\* this.sections after the query method op: the methods read the map, and
\* the list methods filter and sort the copy made by Array.from.
SectionsAfterQuery(op) == sections

\* No query result is in a caller's hands: a query method is synchronous,
\* so nothing else runs between its call and the use of its result.
QueryIdle == query.op = "none"

\* A caller calls the query method op.
Query(op, id) ==
    /\ QueryIdle
    /\ query' = QueryResult(op, id)
    /\ sections' = SectionsAfterQuery(op)
    /\ UNCHANGED <<loadPromises, promises, calls, NODE_ENV, env, FEATURE_FLAGS,
                   flagQuery, page, boundaries, propsCheck, flagSet>>

\* The caller has used the result.
QueryReturn ==
    /\ ~QueryIdle
    /\ query' = NoRegistryQuery
    /\ UNCHANGED <<sections, loadPromises, promises, calls, NODE_ENV, env,
                   FEATURE_FLAGS, flagQuery, page, boundaries, propsCheck, flagSet>>

\* register and loadSection between two queries.
RegisterBetweenQueries(id, entry) == QueryIdle /\ Register(id, entry)

LoadBetweenQueries(id) == QueryIdle /\ LoadSection(id)

NextQueries ==
    \/ \E id \in RegistryIds, e \in RegistryEntries : RegisterBetweenQueries(id, e)
    \/ \E id \in RegistryIds : LoadBetweenQueries(id)
    \/ \E p \in 1..Len(promises), ok \in BOOLEAN : QueryIdle /\ ImportSettle(p, ok)
    \/ \E c \in 1..Len(calls) : QueryIdle /\ StartedResume(c)
    \/ \E c \in 1..Len(calls) : QueryIdle /\ JoinedResume(c)
    \/ \E op \in QueryOps, id \in RegistryIds : Query(op, id)
    \/ QueryReturn

SpecQueries == Init /\ [][NextQueries]_vars

----------------------------------------------------------------------------
(* Section property validation (section-helpers.ts)                         *)

\* Largest number of keys of the props object and of the schema.
MaxProps == 2

PropNames == {"title", "subtitle", "features"}

\* Type tags of a schema, as the pieces of the tag string: 'string',
\* 'string?', 'string[]', 'number?'.
TypeTags == {<<"string">>, <<"string", "?">>, <<"string", "[]">>, <<"number", "?">>}

\* Values a prop may hold: a string, a number, an array, undefined.
PropValues == {"aString", "aNumber", "anArray", "undefined"}

\* Objects as their Object.entries: pairs with distinct names, in insertion
\* order.
ObjectsOver(values) ==
    {o \in UNION {[1..n -> [name : PropNames, value : values]] : n \in 0..MaxProps} :
        \A i, j \in 1..Len(o) : i # j => o[i].name # o[j].name}

\* Object.entries lists own keys only.
HasOwn(obj, name) == \E i \in 1..Len(obj) : obj[i].name = name

\* propName in obj: own keys and, the objects being plain ones, the members
\* inherited from Object.prototype.
PropIn(name, obj) ==
    HasOwn(obj, name) \/ name \in ObjectPrototypeMethods \cup {"__proto__"}

\* obj[propName]: the own value, else the inherited member.
PropGet(obj, name) ==
    IF HasOwn(obj, name)
    THEN obj[CHOOSE i \in 1..Len(obj) : obj[i].name = name].value
    ELSE IF name \in ObjectPrototypeMethods THEN "function"
    ELSE IF name = "__proto__" THEN "object"
    ELSE "undefined"

IsArray(v) == v = "anArray"

\* typeof v
TypeOf(v) ==
    CASE v = "aString" -> "string"
      [] v = "aNumber" -> "number"
      [] v = "anArray" -> "object"
      [] v = "undefined" -> "undefined"

\* Array.isArray(propValue) ? 'array' : typeof propValue
ActualType(v) == IF IsArray(v) THEN "array" ELSE TypeOf(v)

\* expectedType.includes('[]')
IncludesArrayMark(tag) == \E i \in 1..Len(tag) : tag[i] = "[]"

\* expectedType.endsWith('?')
EndsWithOptionalMark(tag) == tag[Len(tag)] = "?"

\* expectedType !== actualType: the whole tag string against the type name.
TagDiffers(tag, actual) == tag # <<actual>>

PropError(kind, name, expected, actual) ==
    [kind |-> kind, prop |-> name, expected |-> expected, actual |-> actual]

\* First loop: one error for every schema key that is not in props.
MissingPropErrors(props, schema) ==
    LET missing == SelectSeq(schema, LAMBDA pair : ~PropIn(pair.name, props))
    IN [i \in 1..Len(missing) |->
            PropError("missing", missing[i].name, missing[i].value, "none")]

\* Second loop, one prop: the kind of error pushed for it, "none" if none,
\* "throws" when the schema has the name only by inheritance: expectedType is
\* then no string and expectedType.includes is not a function.
PropCheck(pair, schema) ==
    IF ~PropIn(pair.name, schema) THEN "none"
    ELSE IF ~HasOwn(schema, pair.name) THEN "throws"
    ELSE LET expectedType == PropGet(schema, pair.name)
             actualType == ActualType(pair.value)
         IN IF IncludesArrayMark(expectedType) /\ ~IsArray(pair.value)
            THEN "notArray"
            ELSE IF /\ ~IncludesArrayMark(expectedType)
                    /\ TagDiffers(expectedType, actualType)
                    /\ actualType # "undefined"
                 THEN IF ~(EndsWithOptionalMark(expectedType) /\ actualType = "undefined")
                      THEN "wrongType"
                      ELSE "none"
                 ELSE "none"

\* Second loop: the errors of the props that are in the schema, in order.
PropTypeErrors(props, schema) ==
    LET bad == SelectSeq(props, LAMBDA pair :
                   PropCheck(pair, schema) \notin {"none", "throws"})
    IN [i \in 1..Len(bad) |->
            PropError(PropCheck(bad[i], schema), bad[i].name,
                      PropGet(schema, bad[i].name), ActualType(bad[i].value))]

\* validateSectionProps(props, config), config.props being the schema: the
\* record returned, or "TypeError" when the second loop throws.
validateSectionProps(props, schema) ==
    LET errors == MissingPropErrors(props, schema) \o PropTypeErrors(props, schema)
    IN IF \E i \in 1..Len(props) : PropCheck(props[i], schema) = "throws"
       THEN "TypeError"
       ELSE [valid |-> Len(errors) = 0, errors |-> errors]

InitProps ==
    /\ sections = <<>>
    /\ loadPromises = [id \in SectionIds |-> NoPromise]
    /\ promises = <<>>
    /\ calls = <<>>
    /\ NODE_ENV = "production"
    /\ env = [k \in OverrideKeys |-> "unset"]
    /\ FEATURE_FLAGS = StaticFlags
    /\ flagQuery = NoQuery
    /\ page = PageInit
    /\ boundaries = [b \in BoundaryIds |-> BoundaryInit(FALSE)]
    /\ query = NoRegistryQuery
    /\ \E props \in ObjectsOver(PropValues), schema \in ObjectsOver(TypeTags) :
          propsCheck = [NoPropsCheck EXCEPT !.props = props, !.schema = schema]
    /\ flagSet = NoFlagSet

\* A caller validates its props against its schema and keeps the result.
ValidateSectionProps ==
    /\ ~propsCheck.called
    /\ propsCheck' = [propsCheck EXCEPT
            !.called = TRUE,
            !.result = validateSectionProps(propsCheck.props, propsCheck.schema)]
    /\ UNCHANGED <<sections, loadPromises, promises, calls, NODE_ENV, env,
                   FEATURE_FLAGS, flagQuery, page, boundaries, query, flagSet>>

NextProps == ValidateSectionProps

SpecProps == InitProps /\ [][NextProps]_vars

----------------------------------------------------------------------------
(* Helpers of the properties *)

\* The calls made for id.
CallsFor(id) == {c \in 1..Len(calls) : calls[c].id = id}

\* The step is a loadSection call: a call record is appended.
IsLoadCall == Len(calls') = Len(calls) + 1

\* The record of the call the step makes.
NewCall == calls'[Len(calls')]

----------------------------------------------------------------------------
(* C1: coalescing *)

\* c2 was issued for the same id while c1 had not resolved, id being
\* allow-listed and unregistered when c2 was issued, and the fetch c1 waits
\* on succeeded.
Coalescable(c1, c2) ==
    /\ c1 \in calls[c2].before
    /\ calls[c1].id = calls[c2].id
    /\ calls[c2].kind \in {"joined", "started"}
    /\ promises[calls[c1].p].state = "fulfilled"

\* C1: calls for an allow-listed, unregistered id that are issued before the
\* first of them resolves share one fetch (no second promise is created), and
\* when the fetch succeeds they all resolve to the entry that fetch built.
C1_Coalescing ==
    \A c1, c2 \in 1..Len(calls) :
        Coalescable(c1, c2) =>
            /\ calls[c2].p = calls[c1].p
            /\ Cardinality({p \in 1..Len(promises) :
                    promises[p].id = calls[c1].id /\ p >= calls[c1].p}) = 1
            /\ \A c \in {c1, c2} :
                  calls[c].status = "returned" =>
                      /\ calls[c].outcome = "entry"
                      /\ calls[c].value = promises[calls[c1].p].entry

C1_Witness ==
    \E c1, c2 \in 1..Len(calls) :
        /\ Coalescable(c1, c2)
        /\ calls[c1].status = "returned"
        /\ calls[c2].status = "returned"
        /\ calls[c1].value = calls[c2].value
        /\ calls[c1].value # NoEntry

----------------------------------------------------------------------------
(* C2: one fetch in progress per identifier *)

FetchesInProgress(id) ==
    {p \in 1..Len(promises) : promises[p].id = id /\ promises[p].state = "pending"}

\* C2: in every reachable state at most one dynamicImport promise per
\* identifier is pending.
C2_OneFetchPerId ==
    \A id \in SectionIds : Cardinality(FetchesInProgress(id)) <= 1

\* A second call arrived while the fetch was in progress and joined it.
C2_Witness ==
    \E id \in SectionIds :
        /\ Cardinality(FetchesInProgress(id)) = 1
        /\ Cardinality({c \in CallsFor(id) : calls[c].status = "awaiting"}) >= 2

----------------------------------------------------------------------------
(* C3: loadSection never rejects *)

\* C3: no call rejects; every call whose fetch failed resolves to null, and
\* the failed fetch leaves no entry of its own in the registry.
C3_NeverRejects ==
    \A c \in 1..Len(calls) :
        calls[c].status = "returned" =>
            /\ calls[c].outcome # "rejected"
            /\ (calls[c].p # NoPromise /\ promises[calls[c].p].state = "rejected") =>
                  /\ calls[c].outcome = "null"
                  /\ \A i \in 1..Len(sections) : sections[i].entry.src # calls[c].p

----------------------------------------------------------------------------
(* C4: the in-flight marker is removed before the starting call returns *)

\* c2 is the first call for the id of c1 that was issued after c1 returned.
NextCallAfter(c1, c2) ==
    /\ c1 < c2
    /\ calls[c1].id = calls[c2].id
    /\ c1 \notin calls[c2].before
    /\ \A c \in (c1 + 1)..(c2 - 1) :
          calls[c].id = calls[c1].id => c1 \in calls[c].before

\* C4: once a call that started a fetch has returned, the marker of that
\* fetch is gone: a marker always belongs to a starting call that has not
\* returned. After a failed load the next call for the id, the id being
\* still unregistered, starts a fetch of its own on a new promise.
C4_MarkerRemoved ==
    /\ \A c \in 1..Len(calls) :
          (calls[c].kind = "started" /\ calls[c].status = "returned") =>
              loadPromises[calls[c].id] # calls[c].p
    /\ \A id \in SectionIds :
          loadPromises[id] # NoPromise =>
              \E c \in CallsFor(id) :
                  /\ calls[c].kind = "started"
                  /\ calls[c].p = loadPromises[id]
                  /\ calls[c].status = "awaiting"
    /\ \A c1, c2 \in 1..Len(calls) :
          ( /\ calls[c1].kind = "started"
            /\ calls[c1].outcome = "null"
            /\ NextCallAfter(c1, c2)
            /\ calls[c2].kind # "existing" ) =>
              /\ calls[c2].kind = "started"
              /\ calls[c2].p > calls[c1].p

\* A load failed and the next call for the id started a second fetch.
C4_Witness ==
    \E c1, c2 \in 1..Len(calls) :
        /\ calls[c1].kind = "started"
        /\ calls[c1].outcome = "null"
        /\ NextCallAfter(c1, c2)
        /\ calls[c2].kind = "started"
        /\ loadPromises[calls[c2].id] = calls[c2].p

----------------------------------------------------------------------------
(* C5: the allow-list *)

\* The step resumes call c, which was waiting on a fetch that succeeded.
ReturnsLoaded(c) ==
    /\ calls[c].status = "awaiting"
    /\ calls'[c].status = "returned"
    /\ promises[calls[c].p].state = "fulfilled"

\* C5: with the allow-list {hero}, a loadSection('hero') whose fetch
\* succeeded resolves to the hero entry that fetch built, and the call that
\* started the fetch registers it; a loadSection of any other id returns
\* null at once, creates no promise and no marker and leaves the registry
\* as it was.
C5_AllowList ==
    [][ /\ \A c \in 1..Len(calls) :
              (calls[c].id = "hero" /\ ReturnsLoaded(c)) =>
                  /\ calls'[c].outcome = "entry"
                  /\ calls'[c].value = HeroEntry(calls[c].p)
                  /\ calls[c].kind = "started" =>
                        getSection("hero")' = HeroEntry(calls[c].p)
        /\ (IsLoadCall /\ NewCall.id # "hero") =>
              /\ NewCall.status = "returned"
              /\ NewCall.outcome = "null"
              /\ NewCall.value = NoEntry
              /\ NewCall.p = NoPromise
              /\ UNCHANGED <<sections, loadPromises, promises>>
      ]_vars

\* hero was loaded and returned to its caller, features was refused.
C5_Witness ==
    /\ \E c \in CallsFor("hero") :
          /\ calls[c].kind = "started"
          /\ calls[c].outcome = "entry"
          /\ getSection("hero") = calls[c].value
    /\ \E c \in CallsFor("features") :
          /\ calls[c].outcome = "null"
          /\ ~hasSection("features")

----------------------------------------------------------------------------
(* C6: a registered id is returned without a fetch *)

\* C6: a loadSection(id) made while the allow-listed id is registered
\* returns the entry registered at that moment and changes neither the
\* registry nor the in-flight map, and creates no promise.
C6_AlreadyRegistered ==
    [][ (IsLoadCall /\ NewCall.id \in AVAILABLE_SECTIONS /\ hasSection(NewCall.id)) =>
            /\ NewCall.status = "returned"
            /\ NewCall.outcome = "entry"
            /\ NewCall.value = getSection(NewCall.id)
            /\ NewCall.p = NoPromise
            /\ UNCHANGED <<sections, loadPromises, promises>>
      ]_vars

C6_Witness ==
    \E c \in 1..Len(calls) :
        /\ calls[c].kind = "existing"
        /\ calls[c].outcome = "entry"
        /\ calls[c].value = getSection(calls[c].id)

----------------------------------------------------------------------------
(* C7: enabled means registered and flagged on *)

\* The flag the flag table holds for each section.
SectionFlag ==
    [id \in SectionIds |->
        CASE id = "hero" -> "HERO_SECTION"
          [] id = "features" -> "FEATURES_SECTION"
          [] id = "pricing" -> "PRICING_SECTION"
          [] id = "testimonials" -> "TESTIMONIALS_SECTION"
          [] id = "contact" -> "CONTACT_SECTION"]

NoOverride ==
    NODE_ENV # "development" \/ \A k \in DOMAIN env : env[k] = "unset"

\* C7: isSectionEnabled(id) is true exactly when id is registered and the
\* flag of its section is on; with the static table and no override, a
\* registered hero section is enabled and listed by getEnabledSections.
C7_EnabledIffFlagOn ==
    /\ \A id \in SectionIds :
          Truthy(isSectionEnabled(id))
              = (hasSection(id) /\ Truthy(isFeatureEnabled(SectionFlag[id])))
    /\ (NoOverride /\ hasSection("hero") /\ getSection("hero").cid = "hero") =>
          /\ Truthy(isSectionEnabled("hero"))
          /\ \E i \in 1..Len(getEnabledSections) :
                getEnabledSections[i] = getSection("hero")

----------------------------------------------------------------------------
(* C8: the enabled list is a filtered, stably sorted view *)

\* list holds exactly the entries of getAllSections at the positions in
\* included, ascending by order, equal orders in insertion order.
IsStableSortOf(list, included) ==
    LET all == getAllSections
        Rank(j) == 1 + Cardinality({k \in included :
                        \/ all[k].order < all[j].order
                        \/ all[k].order = all[j].order /\ k < j})
    IN /\ Len(list) = Cardinality(included)
       /\ \A j \in included : list[Rank(j)] = all[j]

\* C8 as stated: the list is the stable sort of the registered entries whose
\* id satisfies isSectionEnabled.
C8_FilterByIsSectionEnabled ==
    LET included == {j \in 1..Len(sections) :
                        Truthy(isSectionEnabled(sections[j].entry.cid))}
    IN /\ IsStableSortOf(getEnabledSections, included)
       /\ IsStableSortOf(getSectionsInOrder, included)

\* C8: getEnabledSections() and getSectionsInOrder() hold exactly the
\* registered entries whose config.id isFeatureEnabled reports on, sorted
\* non-decreasing by order, equal orders in insertion order; for an entry
\* registered under its own config.id that is isSectionEnabled of its id.
C8_FilterByConfigId ==
    LET included == {j \in 1..Len(sections) :
                        Truthy(isFeatureEnabled(sections[j].entry.cid))}
    IN /\ IsStableSortOf(getEnabledSections, included)
       /\ IsStableSortOf(getSectionsInOrder, included)
       /\ \A j \in 1..Len(sections) :
             sections[j].key = sections[j].entry.cid =>
                 (j \in included <=> Truthy(isSectionEnabled(sections[j].key)))

\* Two enabled entries that the sort has to swap.
C8_Witness ==
    /\ Len(sections) = 2
    /\ Len(getEnabledSections) = 2
    /\ sections[1].entry.order > sections[2].entry.order
    /\ getEnabledSections[1] = sections[2].entry

----------------------------------------------------------------------------
(* C9: register is last-write-wins *)

\* C9: no identifier has two entries, and a register(id, e) leaves exactly e
\* under id, adds an entry only when id had none, keeps the insertion order
\* of the keys and leaves every other identifier's entry as it was.
C9_LastWriteWins ==
    /\ [](\A i, j \in 1..Len(sections) :
              sections[i].key = sections[j].key => i = j)
    /\ [][ \A id \in CallIds, e \in Entries :
              Register(id, e) =>
                  /\ getSection(id)' = e
                  /\ Len(sections') = IF hasSection(id) THEN Len(sections)
                                      ELSE Len(sections) + 1
                  /\ \A i \in 1..Len(sections) :
                        /\ sections'[i].key = sections[i].key
                        /\ sections[i].key # id => sections'[i] = sections[i]
         ]_vars

\* The entry a load registered for hero was replaced by a later register.
C9_Witness ==
    /\ \E c \in CallsFor("hero") :
          calls[c].kind = "started" /\ calls[c].outcome = "entry"
    /\ Len(sections) = 1
    /\ getSection("hero").src = 0
    /\ getSection("hero").order # HeroOrder

----------------------------------------------------------------------------
(* C10: validateDependencies reports the missing dependencies *)

\* The positions <<i, k>> of the declared dependencies of the enabled
\* entries that are not registered.
MissingDependencies ==
    LET enabled == getEnabledSections
    IN UNION {{<<i, k>> : k \in {n \in 1..Len(enabled[i].deps) :
                                    ~hasSection(enabled[i].deps[n])}} :
              i \in 1..Len(enabled)}

\* C10: validateDependencies() holds one error per enabled entry and declared
\* dependency that is not registered, each naming the entry and the
\* dependency, and valid is true exactly when there is none; once hero is
\* loaded with its flag on and 'ethereal-depth' is not registered, the result
\* is invalid with an error naming hero and ethereal-depth.
C10_ReportsMissingDependencies ==
    LET v == validateDependencies
        enabled == getEnabledSections
    IN /\ Len(v.errors) = Cardinality(MissingDependencies)
       /\ \A m \in MissingDependencies :
             \E n \in 1..Len(v.errors) :
                 v.errors[n] = <<enabled[m[1]].cid, enabled[m[1]].deps[m[2]]>>
       /\ v.valid = (MissingDependencies = {})
       /\ ( /\ hasSection("hero")
            /\ getSection("hero").src # 0
            /\ Truthy(isFeatureEnabled(SectionFlag["hero"]))
            /\ ~hasSection("ethereal-depth") ) =>
              /\ ~v.valid
              /\ \E n \in 1..Len(v.errors) :
                    v.errors[n] = <<"hero", "ethereal-depth">>

----------------------------------------------------------------------------
(* C11: a registered dependency is enough, whatever its flag *)

\* The positions in the map of the entries whose flag lookup is truthy.
EnabledPositions ==
    {i \in 1..Len(sections) : Truthy(isFeatureEnabled(sections[i].entry.cid))}

\* C11: validateDependencies() returns valid = true and no errors whenever
\* every dependency declared by every enabled entry is registered, enabled or
\* not; and every error it returns names an enabled entry and a dependency
\* that entry declares and that is not registered, so that the dependencies
\* of disabled entries and dependency cycles produce no error.
C11_RegisteredDependencyIsEnough ==
    LET v == validateDependencies
    IN /\ (\A i \in EnabledPositions :
              \A k \in 1..Len(sections[i].entry.deps) :
                  sections[i].entry.deps[k] \in Keys(sections))
          => (v.valid = TRUE /\ v.errors = <<>>)
       /\ \A n \in 1..Len(v.errors) :
             \E i \in EnabledPositions :
                 /\ v.errors[n][1] = sections[i].entry.cid
                 /\ \E k \in 1..Len(sections[i].entry.deps) :
                        sections[i].entry.deps[k] = v.errors[n][2]
                 /\ v.errors[n][2] \notin Keys(sections)

\* An enabled entry depends on 'features', which is registered, is disabled
\* and declares a dependency on itself; the result is valid.
C11_Witness ==
    /\ \E i \in EnabledPositions : sections[i].entry.deps = <<"features">>
    /\ hasSection("features")
    /\ ~Truthy(isSectionEnabled("features"))
    /\ ~Truthy(isFeatureEnabled(getSection("features").cid))
    /\ getSection("features").deps = <<"features">>
    /\ validateDependencies.valid

----------------------------------------------------------------------------
(* C12: the page loads one section at a time *)

\* The page has resumed after its k-th loadSection call.
Processed(k) == k < Len(page.attempts) \/ page.pc = "done"

\* The k-th loadSection call of the page failed: it resolved to null or rejected.
AttemptFailed(k) == calls[page.attempts[k]].outcome \in {"null", "rejected"}

\* The loads of the page are sequential: the first is hero's, every later
\* load begins when all earlier loads of the page have returned, and at most
\* one is outstanding.
LoadsOneAtATime ==
    LET attempts == page.attempts
    IN /\ Len(attempts) >= 1 => calls[attempts[1]].id = "hero"
       /\ \A k \in 2..Len(attempts) :
             \A j \in 1..(k - 1) : attempts[j] \notin calls[attempts[k]].before
       /\ Cardinality({k \in 1..Len(attempts) :
                          calls[attempts[k]].status = "awaiting"}) <= 1

\* The k-th load after hero's is for the k-th entry of the enabled set
\* without hero, and that list is in ascending order.
LoadsInAscendingOrder ==
    LET attempts == page.attempts
        additional == page.additionalSections
    IN /\ Len(attempts) <= 1 + Len(additional)
       /\ \A k \in 2..Len(attempts) :
             calls[attempts[k]].id = additional[k - 1].cid
       /\ \A i, j \in 1..Len(additional) :
             i < j => additional[i].order <= additional[j].order

\* No identifier is loaded twice by the page.
NoIdLoadedTwice ==
    \A j, k \in 1..Len(page.attempts) :
        j # k => calls[page.attempts[j]].id # calls[page.attempts[k]].id

\* Every entry of the registry is registered under its own config.id.
RegisteredUnderOwnId ==
    \A n \in 1..Len(sections) : sections[n].key = sections[n].entry.cid

\* C12 as stated: the loads of the page are sequential with hero's first,
\* the later ones follow the enabled set in ascending order, and no section
\* is loaded twice.
C12_EachSectionOnce ==
    /\ LoadsOneAtATime
    /\ LoadsInAscendingOrder
    /\ NoIdLoadedTwice

\* The enabled set the page walks holds no two entries of the same config.id.
WalksDistinctSections ==
    \A i, j \in 1..Len(page.additionalSections) :
        i # j => page.additionalSections[i].cid # page.additionalSections[j].cid

\* C12: the first load of the page is hero's; every later load begins when
\* all earlier loads of the page have returned, so that at most one is
\* outstanding; the k-th later load is for the k-th entry of the enabled set
\* without hero, which is in ascending order, so that every entry of that
\* list is attempted at most once and in that order; no identifier is loaded
\* twice when the list holds no two entries of the same config.id, and it
\* holds none when every entry is registered under its own config.id at the
\* time the page reads the enabled set.
C12_OneLoadAtATime ==
    /\ [](/\ LoadsOneAtATime
          /\ LoadsInAscendingOrder
          /\ WalksDistinctSections => NoIdLoadedTwice)
    /\ [][ (page.pc = "awaitHero" /\ page'.pc # "awaitHero" /\ RegisteredUnderOwnId) =>
              WalksDistinctSections' ]_vars

\* The hero load was suspended on a fetch; 'features' was registered before
\* 'pricing' with the higher order, each under its own config.id, and the
\* page then loaded 'pricing' and, once that had returned, 'features'.
C12_Witness ==
    /\ page.pc = "done"
    /\ Len(page.attempts) = 3
    /\ calls[page.attempts[1]].kind = "started"
    /\ calls[page.attempts[2]].id = "pricing"
    /\ calls[page.attempts[3]].id = "features"
    /\ RegisteredUnderOwnId
    /\ \E m, n \in 1..Len(sections) :
          /\ m < n
          /\ sections[m].key = "features" /\ sections[n].key = "pricing"
          /\ sections[m].entry.order > sections[n].entry.order

----------------------------------------------------------------------------
(* C13: the status of an attempted section *)

\* C13: a section of the loop has status 'loading' while its load is
\* awaited, and once the page has resumed after the load its status is
\* 'loaded' if the load resolved to an entry and 'error' if it resolved to
\* null or rejected; once isInitialized is true no status is 'loading'.
C13_StatusFollowsLoad ==
    /\ \A k \in 2..Len(page.attempts) :
          LET id == calls[page.attempts[k]].id
          IN (\A j \in (k + 1)..Len(page.attempts) : calls[page.attempts[j]].id # id) =>
                page.loadingStatus[id] =
                    IF ~Processed(k) THEN "loading"
                    ELSE IF AttemptFailed(k) THEN "error" ELSE "loaded"
    /\ page.isInitialized =>
          \A id \in SectionIds : page.loadingStatus[id] # "loading"

----------------------------------------------------------------------------
(* C14: a failed load is surfaced *)

\* C14: once the page has resumed after a load that failed, what it renders
\* contains the page-level error fallback for that section.
C14_FailedLoadSurfaced ==
    \A k \in 1..Len(page.attempts) :
        (Processed(k) /\ AttemptFailed(k)) =>
            \E i \in 1..Len(page.sections) :
                /\ RenderList[i].id = calls[page.attempts[k]].id
                /\ RenderList[i].view = "SectionErrorFallback"

----------------------------------------------------------------------------
(* C15: initialization terminates *)

\* C15: once the page has mounted, isInitialized eventually becomes true,
\* whatever the loads resolve to; and when it is true the pass has ended,
\* either in the outer catch or after a load was made, and has returned,
\* for every section of the enabled set without hero.
C15_InitializationTerminates ==
    /\ [](page.isInitialized =>
             /\ page.pc = "done"
             /\ \/ page.raised
                \/ /\ Len(page.attempts) = 1 + Len(page.additionalSections)
                   /\ \A k \in 1..Len(page.attempts) :
                         calls[page.attempts[k]].status = "returned")
    /\ (page.pc # "unmounted") ~> page.isInitialized

\* The hero load failed and the pass still attempted an enabled section
\* before it set isInitialized.
C15_Witness ==
    /\ page.isInitialized
    /\ ~page.raised
    /\ calls[page.attempts[1]].outcome = "null"
    /\ Len(page.attempts) >= 2

----------------------------------------------------------------------------
(* C16: a failed load does not affect the other sections *)

\* C16: whether a load resolves to null or rejects, the pass goes on: when
\* the hero load has finished the pass ends at once only if no other section
\* is enabled, a pass that ends outside the outer catch has attempted every
\* section of the enabled set without hero, and an entry of the render list
\* whose status is 'loaded' stays in the list with that status.
C16_FailureIsolated ==
    /\ []((page.pc = "done" /\ ~page.raised) =>
             Len(page.attempts) = 1 + Len(page.additionalSections))
    /\ [][ (page.pc = "awaitHero" /\ page'.pc = "done") =>
              SelectSeq(getEnabledSections, NotHero) = <<>> ]_vars
    /\ [][ \A i \in 1..Len(page.sections) :
              page.loadingStatus[page.sections[i].cid] = "loaded" =>
                  /\ \E j \in 1..Len(page'.sections) :
                        page'.sections[j] = page.sections[i]
                  /\ page'.loadingStatus[page.sections[i].cid] = "loaded" ]_vars

----------------------------------------------------------------------------
(* C17: the states of one error boundary *)

\* C17: a boundary starts with hasError = false; hasError turns true exactly
\* in the steps where its subtree raises while rendering; it renders the
\* fallback and not its children exactly while it holds a caught error;
\* hasError turns false only in a retry step, which also clears error and
\* errorInfo; and a subtree that raises after a retry turns hasError true
\* again.
C17_BoundaryStates ==
    /\ \A b \in BoundaryIds : ~boundaries[b].hasError
    /\ [](\A b \in BoundaryIds :
             Render(b) = (IF boundaries[b].error # "undefined"
                          THEN "fallback" ELSE "children"))
    /\ [][ \A b \in BoundaryIds :
             /\ (~boundaries[b].hasError /\ boundaries'[b].hasError)
                    <=> (\E error \in Errors : SubtreeRaises(b, error))
             /\ (boundaries[b].hasError /\ ~boundaries'[b].hasError) => Retry(b)
             /\ Retry(b) => /\ ~boundaries'[b].hasError
                            /\ boundaries'[b].error = "undefined"
                            /\ boundaries'[b].errorInfo = "undefined"
       ]_vars

\* A boundary failed, was retried, and failed again when its subtree raised
\* a second time.
C17_Witness ==
    \E b \in BoundaryIds :
        /\ boundaries[b].raises = 2
        /\ boundaries[b].hasError
        /\ boundaries[b].errorInfo = "componentStack"
        /\ Render(b) = "fallback"

----------------------------------------------------------------------------
(* C18: boundaries are independent *)

\* C18: a step in which the subtree of one boundary raises, the boundary
\* catches, or the boundary is retried leaves the state of every other
\* boundary as it was.
C18_BoundariesIndependent ==
    [][ \A b \in BoundaryIds :
          boundaries'[b] # boundaries[b] =>
              \A o \in BoundaryIds \ {b} : boundaries'[o] = boundaries[o]
      ]_vars

\* One boundary has failed while another was retried, and is rendering its
\* children again.
C18_Witness ==
    \E b, o \in BoundaryIds :
        /\ b # o
        /\ boundaries[b].hasError /\ boundaries[b].pending = "undefined"
        /\ ~boundaries[o].hasError /\ boundaries[o].raises = 1

----------------------------------------------------------------------------
(* C19: getLoadStatus *)

\* The loads of id that are in flight: the calls that started a fetch and
\* have not returned.
LoadsInFlight(id) ==
    {c \in CallsFor(id) : calls[c].kind = "started" /\ calls[c].status = "awaiting"}

\* The loads of id that failed: the calls that started a fetch and returned null.
FailedLoads(id) ==
    {c \in CallsFor(id) : calls[c].kind = "started" /\ calls[c].outcome = "null"}

\* C19: getLoadStatus() has a status for each of the five section ids and no
\* other: 'loaded' exactly when the id is registered, 'loading' exactly when
\* it is not registered and a load of it is in flight, 'not-loaded'
\* otherwise, never 'error'; an id whose load failed, that is not registered
\* and has no load in flight, is 'not-loaded'.
C19_LoadStatus ==
    LET status == getLoadStatus
    IN /\ DOMAIN status = {"hero", "features", "pricing", "testimonials", "contact"}
       /\ \A id \in DOMAIN status :
             /\ status[id] \in {"loaded", "loading", "not-loaded"}
             /\ status[id] = "loaded" <=> id \in Keys(sections)
             /\ status[id] = "loading" <=>
                    (id \notin Keys(sections) /\ LoadsInFlight(id) # {})
             /\ (FailedLoads(id) # {} /\ id \notin Keys(sections)
                    /\ LoadsInFlight(id) = {}) => status[id] = "not-loaded"

\* The load of hero failed, nothing registered hero and no new load of it
\* started: hero is 'not-loaded', while the registered features is
\* 'loaded'.
C19_Witness ==
    /\ FailedLoads("hero") # {}
    /\ LoadsInFlight("hero") = {}
    /\ getLoadStatus["hero"] = "not-loaded"
    /\ getLoadStatus["features"] = "loaded"

----------------------------------------------------------------------------
(* C20: isFeatureEnabled *)

\* C20: a call isFeatureEnabled(flag) returns (override = 'true') when the
\* mode is development and FEATURE_<flag> is set, and the flag table's value
\* for the flag otherwise, that is with no override or outside development
\* even with an override; the call changes neither the mode, nor the
\* overrides, nor the table.
C20_OverrideOnlyInDevelopment ==
    [][ flagQuery' # flagQuery =>
          LET flag == flagQuery'.feature
          IN /\ flagQuery'.value =
                   IF NODE_ENV = "development" /\ env[flag] # "unset"
                   THEN (IF env[flag] = "true" THEN "true" ELSE "false")
                   ELSE FEATURE_FLAGS[flag]
             /\ UNCHANGED <<NODE_ENV, env, FEATURE_FLAGS>>
      ]_vars

\* Outside development a call returned the table's value although an
\* override of the opposite value is set.
C20_Witness ==
    /\ NODE_ENV = "production"
    /\ flagQuery.feature = "FEATURES_SECTION"
    /\ env["FEATURES_SECTION"] = "true"
    /\ flagQuery.value = "false"

----------------------------------------------------------------------------
(* C21: the query methods change nothing *)

\* C21: a call of a query method leaves the registered entries, their
\* insertion order and the in-flight map as they were; getAllSections
\* returns the entries registered at the time of the call in insertion
\* order, and getEnabledSections and getSectionsInOrder return the stable
\* sort by order of exactly those of these entries that pass the flag
\* filter.
C21_QueriesAreViews ==
    [][ (query.op = "none" /\ query'.op # "none") =>
          /\ sections' = sections
          /\ loadPromises' = loadPromises
          /\ query'.op = "getAllSections" =>
                query'.list = [i \in 1..Len(sections) |-> sections[i].entry]
          /\ query'.op \in {"getEnabledSections", "getSectionsInOrder"} =>
                IsStableSortOf(query'.list, EnabledPositions)
      ]_vars

\* getEnabledSections was called with two enabled entries registered out of
\* order and a load in flight; it returned both, sorted, and the map and the
\* marker are still there.
C21_Witness ==
    /\ query.op = "getEnabledSections"
    /\ Len(sections) = 2
    /\ sections[1].entry.order > sections[2].entry.order
    /\ query.list = <<sections[2].entry, sections[1].entry>>
    /\ \E id \in SectionIds : loadPromises[id] # NoPromise

----------------------------------------------------------------------------
(* C22: a registered identifier stays registered *)

\* C22: no step of register, loadSection (its call, the settling of its
\* import, the resumption of its callers) or of a query method removes a key
\* of the registry, so an identifier that is registered stays registered and
\* keeps the load status 'loaded'; and a loadSection call for an allow-listed
\* identifier that is registered takes the already-registered path and
\* creates no import promise and no in-flight marker.
C22_LoadedIsAbsorbing ==
    [][ /\ Keys(sections) \subseteq Keys(sections')
        /\ \A id \in Keys(sections) : getLoadStatus'[id] = "loaded"
        /\ (IsLoadCall /\ NewCall.id \in AVAILABLE_SECTIONS /\ hasSection(NewCall.id)) =>
              /\ NewCall.kind = "existing"
              /\ promises' = promises
              /\ loadPromises' = loadPromises
      ]_vars

\* 'hero' was registered by a successful load, another identifier was
\* registered by register afterwards, a later loadSection('hero') took the
\* already-registered path with the single import promise still the only
\* one, and getLoadStatus then reported both identifiers as loaded.
C22_Witness ==
    /\ Len(calls) = 2
    /\ calls[1].kind = "started" /\ calls[1].outcome = "entry"
    /\ calls[2].kind = "existing" /\ calls[2].id = "hero"
    /\ Len(promises) = 1
    /\ Len(sections) = 2 /\ sections[1].key = "hero" /\ sections[2].key = "features"
    /\ query.op = "getLoadStatus"
    /\ query.status["hero"] = "loaded" /\ query.status["features"] = "loaded"

----------------------------------------------------------------------------
(* C23: validation of section props *)

\* The errors of the result that name prop.
ErrorsNaming(name) ==
    {i \in 1..Len(propsCheck.result.errors) : propsCheck.result.errors[i].prop = name}

\* C23: in the result of validateSectionProps a schema key tagged optional
\* that is absent from props has no error, and neither has one that is
\* present with a value of the tagged base type; a missing key that is not
\* tagged optional has exactly one error, an array-tagged key whose value is
\* not an array has exactly one error, and valid is true exactly when there
\* are no errors.
C23_OnlyNonOptionalRequired ==
    propsCheck.called =>
        /\ propsCheck.result.valid = (propsCheck.result.errors = <<>>)
        /\ \A i \in 1..Len(propsCheck.schema) :
              LET name == propsCheck.schema[i].name
                  tag == propsCheck.schema[i].value
                  present == PropIn(name, propsCheck.props)
              IN /\ (EndsWithOptionalMark(tag) /\ ~present) =>
                        ErrorsNaming(name) = {}
                 /\ (/\ EndsWithOptionalMark(tag) /\ ~IncludesArrayMark(tag) /\ present
                     /\ TypeOf(PropGet(propsCheck.props, name)) = tag[1]) =>
                        ErrorsNaming(name) = {}
                 /\ (~EndsWithOptionalMark(tag) /\ ~present) =>
                        Cardinality(ErrorsNaming(name)) = 1
                 /\ (/\ IncludesArrayMark(tag) /\ present
                     /\ ~IsArray(PropGet(propsCheck.props, name))) =>
                        Cardinality(ErrorsNaming(name)) = 1

----------------------------------------------------------------------------
(* C24: registration happens before delivery *)

\* The step makes call c return an entry: c is a new call that returns at
\* once, or a suspended call that resumes.
Delivers(c) ==
    /\ calls'[c].status = "returned"
    /\ calls'[c].outcome = "entry"
    /\ c > Len(calls) \/ calls[c].status # "returned"

\* C24 as stated: at the moment a call returns an entry e the registry
\* contains the identifier and getSection(id) is e.
C24_RegisteredIsDelivered ==
    [][ \A c \in 1..Len(calls'), id \in CallIds :
            (Delivers(c) /\ calls'[c].id = id) =>
                /\ hasSection(id)'
                /\ getSection(id)' = calls'[c].value ]_vars

\* C24: at the moment a call returns an entry e the registry contains the
\* identifier; getSection(id) is e for the call that started the fetch and
\* for a call that found the identifier registered, and for a call that
\* joined the fetch it is e or an entry handed to register(id, .) after the
\* starting call registered e.
C24_RegisteredBeforeDelivery ==
    [][ \A c \in 1..Len(calls'), id \in CallIds :
            (Delivers(c) /\ calls'[c].id = id) =>
                /\ hasSection(id)'
                /\ \/ getSection(id)' = calls'[c].value
                   \/ /\ calls'[c].kind = "joined"
                      /\ getSection(id)'.src = 0
                      /\ calls'[StarterOf(calls[c].p)].value = calls'[c].value ]_vars

\* A call that joined the fetch has returned the entry the starting call
\* returned, and the registry holds that entry.
C24_Witness ==
    \E c \in 1..Len(calls) :
        /\ calls[c].kind = "joined"
        /\ calls[c].status = "returned"
        /\ calls[c].outcome = "entry"
        /\ calls[StarterOf(calls[c].p)].value = calls[c].value
        /\ getSection(calls[c].id) = calls[c].value

----------------------------------------------------------------------------
(* C25: the render list of the landing page *)

\* The render list is sorted by order and no two of its entries have the
\* same config.id.
RenderListOrdered ==
    /\ \A i, j \in 1..Len(page.sections) :
          i < j => page.sections[i].order <= page.sections[j].order
    /\ \A i, j \in 1..Len(page.sections) :
          i # j => page.sections[i].cid # page.sections[j].cid

\* Every entry of the render list before the step is in it after the step.
RenderListGrows ==
    \A i \in 1..Len(page.sections) :
        \E j \in 1..Len(page'.sections) : page'.sections[j] = page.sections[i]

\* C25 as stated: the render list is sorted and without duplicates, the
\* status of every entry (read under its config.id, as the page reads it) is
\* 'loaded', every entry is the one the registry holds for its config.id, and
\* no entry ever leaves the list.
C25_RenderListIsRegistry ==
    /\ [](/\ RenderListOrdered
          /\ \A i \in 1..Len(page.sections) :
                /\ page.loadingStatus[page.sections[i].cid] = "loaded"
                /\ hasSection(page.sections[i].cid)
                /\ getSection(page.sections[i].cid) = page.sections[i])
    /\ [][RenderListGrows]_vars

\* C25: the render list is sorted and without duplicates; every entry of it
\* was returned by a loadSection call the page made, and the identifier that
\* call loaded has the status 'loaded'; no entry ever leaves the list.
C25_RenderListIsLoaded ==
    /\ [](/\ RenderListOrdered
          /\ \A i \in 1..Len(page.sections) :
                \E k \in 1..Len(page.attempts) :
                    /\ calls[page.attempts[k]].outcome = "entry"
                    /\ calls[page.attempts[k]].value = page.sections[i]
                    /\ page.loadingStatus[calls[page.attempts[k]].id] = "loaded")
    /\ [][RenderListGrows]_vars

\* The page has finished after attempting a second section; its render list
\* holds the hero entry built by the import, which is the registered one.
C25_Witness ==
    /\ page.pc = "done"
    /\ Len(page.attempts) = 2
    /\ Len(page.sections) = 1
    /\ page.sections[1].src # 0
    /\ page.sections[1] = getSection("hero")
    /\ page.loadingStatus["hero"] = "loaded"

----------------------------------------------------------------------------
(* C26: the allow-list check comes before the registered check *)

\* C26: a loadSection(id) call for an identifier outside the allow-list that
\* is registered returns null at once, while getSection(id) returns the
\* entry and getLoadStatus reports 'loaded' for it; and when the page resumes
\* from its attempt for an identifier outside the allow-list, the render list
\* is what it was and the status of the identifier is not 'loaded'.
C26_AllowListBeforeRegistered ==
    [][ /\ \A id \in CallIds \ AVAILABLE_SECTIONS :
              (IsLoadCall /\ NewCall.id = id /\ hasSection(id)) =>
                  /\ NewCall.kind = "unavailable"
                  /\ NewCall.status = "returned"
                  /\ NewCall.outcome = "null"
                  /\ getSection(id)' # NoEntry
                  /\ getSection(id)' = getSection(id)
                  /\ getLoadStatus'[id] = "loaded"
        /\ \A id \in CallIds \ AVAILABLE_SECTIONS :
              ( /\ page.pc = "awaitSection"
                /\ page.additionalSections[page.index].cid = id
                /\ page' # page ) =>
                  /\ page'.sections = page.sections
                  /\ page'.loadingStatus[id] # "loaded"
      ]_vars

\* The page attempted 'features', registered and enabled, got null and has
\* finished with the hero entry alone in its render list; the registry still
\* returns the entry and reports it loaded.
C26_Witness ==
    /\ page.pc = "done"
    /\ Len(page.attempts) = 2
    /\ calls[page.attempts[2]].id = "features"
    /\ calls[page.attempts[2]].kind = "unavailable"
    /\ calls[page.attempts[2]].outcome = "null"
    /\ hasSection("features")
    /\ getSection("features").cid = "features"
    /\ getLoadStatus["features"] = "loaded"
    /\ Len(page.sections) = 1
    /\ page.sections[1].cid = "hero"

----------------------------------------------------------------------------
(* C27: the onError callback of an error boundary *)

\* The step is the commit of a failure of boundary b: componentDidCatch runs.
CatchCommitted(b) ==
    boundaries[b].pending # "undefined" /\ boundaries'[b].pending = "undefined"

\* C27: when a boundary that was given onError commits a failure, the
\* callback receives one call, with the error raised and the diagnostic
\* info; a boundary that was given none receives no call and fails all the
\* same; no other step (a render while ok, a retry) adds a call. So the
\* callback has been called once for every committed failure.
C27_OnErrorOncePerFailure ==
    /\ [](\A b \in BoundaryIds :
            LET state == boundaries[b]
                committed == state.raises - (IF state.pending # "undefined" THEN 1 ELSE 0)
            IN Len(state.reported) = IF state.onError THEN committed ELSE 0)
    /\ [][ \A b \in BoundaryIds :
            IF CatchCommitted(b)
            THEN /\ boundaries'[b].hasError
                 /\ boundaries'[b].error = boundaries[b].pending
                 /\ boundaries'[b].reported =
                       IF boundaries[b].onError
                       THEN Append(boundaries[b].reported,
                                   <<boundaries[b].pending, boundaries'[b].errorInfo>>)
                       ELSE <<>>
            ELSE boundaries'[b].reported = boundaries[b].reported ]_vars

\* The boundary with a callback failed, was retried and failed again with
\* another error: the callback received the two errors in turn; the boundary
\* without a callback failed and shows its fallback.
C27_Witness ==
    /\ boundaries["hero"].onError
    /\ boundaries["hero"].hasError
    /\ boundaries["hero"].reported =
          <<<<"TypeError", "componentStack">>, <<"RangeError", "componentStack">>>>
    /\ ~boundaries["features"].onError
    /\ boundaries["features"].hasError
    /\ boundaries["features"].pending = "undefined"
    /\ boundaries["features"].reported = <<>>

----------------------------------------------------------------------------
(* C28: setFeatureFlag writes the table in development only *)

\* C28: outside development no step changes the flag table, so every
\* isFeatureEnabled(flag) has the value it had before a setFeatureFlag call;
\* in development setFeatureFlag(flag, enabled) sets the table's value for
\* flag to enabled and leaves every other flag as it was, and
\* isFeatureEnabled(flag) still returns the override when FEATURE_<flag> is
\* set.
C28_SetOnlyInDevelopment ==
    [][ /\ NODE_ENV # "development" =>
              /\ FEATURE_FLAGS' = FEATURE_FLAGS
              /\ \A f \in FlagInputs : isFeatureEnabled(f)' = isFeatureEnabled(f)
        /\ \A f \in FlagInputs :
              (flagSet' # flagSet /\ flagSet'.feature = f /\ NODE_ENV = "development") =>
                  /\ FEATURE_FLAGS'[f] = flagSet'.enabled
                  /\ \A g \in FlagNames \ {f} : FEATURE_FLAGS'[g] = FEATURE_FLAGS[g]
                  /\ isFeatureEnabled(f)' =
                        IF env[f] # "unset"
                        THEN (IF env[f] = "true" THEN "true" ELSE "false")
                        ELSE flagSet'.enabled
      ]_vars

\* Outside development setFeatureFlag('FEATURES_SECTION', true) was called
\* and an isFeatureEnabled call after it returned false, the table being the
\* static one.
C28_Witness ==
    /\ NODE_ENV = "production"
    /\ flagSet = [feature |-> "FEATURES_SECTION", enabled |-> "true"]
    /\ FEATURE_FLAGS = StaticFlags
    /\ flagQuery = [feature |-> "FEATURES_SECTION", value |-> "false"]
    /\ env["FEATURES_SECTION"] = "unset"

====
